---- MODULE Spec2Model ----
(***************************************************************************)
(* A model of web_monitoring/differs.py: the source diff dispatcher        *)
(* (compute_dmp_diff, html_source_diff), the region splitter               *)
(* (_find_meaningful_nodes), the undiffable-content shield                 *)
(* (_remove_undiffable_content, _add_undiffable_content), the element pair *)
(* differ (_diff_elements) and the render pipeline (html_diff_render).     *)
(*                                                                         *)
(* A parsed document is a tree of nodes; a markup string is a sequence of  *)
(* tokens.  str(node) and prettify() turn trees into token sequences and   *)
(* BeautifulSoup(markup) turns token sequences back into trees.            *)
(***************************************************************************)
EXTENDS Integers, Sequences, FiniteSets, TLC

VARIABLES
    \* _find_meaningful_nodes: the root's children, the loop's position and
    \* locals, the returned dict
    children, idx, pre_head, head, pre_body, body, post_body, regions, fpc,
    \* html_source_diff: the two inputs and what the call left behind
    a_text, b_text, changes, dpc,
    \* shield and restore of one document: the document, the prefix, the
    \* soup and dict they work on, the exception raised
    document, side_prefix, shielded, table, sexc, spc,
    \* html_diff_render: its locals, the engine calls made, the exception
    \* raised, the returned markup
    soup_old, soup_new, replacements_old, replacements_new, old_content,
    new_content, diffs, calls, rexc, render, rpc

splitVars == <<children, idx, pre_head, head, pre_body, body, post_body, regions, fpc>>
dmpVars == <<a_text, b_text, changes, dpc>>
shieldVars == <<document, side_prefix, shielded, table, sexc, spc>>
renderVars == <<soup_old, soup_new, replacements_old, replacements_new,
                old_content, new_content, diffs, calls, rexc, render, rpc>>
vars == <<splitVars, dmpVars, shieldVars, renderVars>>

(***************************************************************************)
(* Bounds of the model.                                                    *)
(***************************************************************************)
\* longest sequence of root children given to _find_meaningful_nodes
MaxKids == 4
\* longest text or byte string given to html_source_diff
MaxLen == 2
\* places of a document that may hold a script or style element
MaxSlots == 3
\* most script and style elements in the head, and in the body, of a
\* document given to html_diff_render
MaxScripts == 1

(***************************************************************************)
(* Nodes and markup.                                                       *)
(***************************************************************************)
\* A Tag: name, ordinary attributes, the wm-diff-replacement attribute
\* ("" when the element does not carry it) and the child nodes.
Elem(tag, attrs, kids) ==
    [tag |-> tag, attrs |-> attrs, wm |-> "", kids |-> kids, s |-> <<>>]

\* One token of a markup string.
Tok(k, tag, attrs, wm, txt) ==
    [k |-> k, tag |-> tag, attrs |-> attrs, wm |-> wm, txt |-> txt]

\* A NavigableString: its characters are kept as markup tokens, because
\* formatter=None writes a string into the output unescaped.
Str(toks) ==
    [tag |-> "#text", attrs |-> "", wm |-> "", kids |-> <<>>, s |-> toks]

Word(w) == <<Tok("text", "", "", "", w)>>

\* A Comment node.
CommentNode(w) ==
    [tag |-> "#comment", attrs |-> "", wm |-> "", kids |-> <<>>,
     s |-> <<Tok("comment", "", "", "", w)>>]

\* Python's None.
None ==
    [tag |-> "#none", attrs |-> "", wm |-> "", kids |-> <<>>, s |-> <<>>]

\* hasattr(node, 'name'): Tags have a name, strings and comments do not.
HasName(node) == node.tag \notin {"#text", "#comment", "#none"}

\* Faulty variant of Truthy: a Tag with no contents counts as false (its length).
TruthyByLength(node) ==
    CASE node.tag = "#none" -> FALSE
      [] node.tag \in {"#text", "#comment"} -> node.s # <<>>
      [] OTHER -> node.kids # <<>>

\* bool(x): None is false, a string is true when non-empty, and a Tag is
\* always true (Tag.__bool__), even when it has no contents.
Truthy(node) ==
    CASE node.tag = "#none" -> FALSE
      [] node.tag \in {"#text", "#comment"} -> node.s # <<>>
      [] OTHER -> TRUE

RECURSIVE Flatten(_)
\* ''.join(strings)
Flatten(strs) ==
    IF strs = <<>> THEN <<>> ELSE Head(strs) \o Flatten(Tail(strs))

RECURSIVE ToMarkup(_)
\* str(node): the markup of a node and of everything below it.
ToMarkup(node) ==
    IF ~HasName(node) THEN node.s
    ELSE <<Tok("open", node.tag, node.attrs, node.wm, "")>>
         \o Flatten([i \in 1..Len(node.kids) |-> ToMarkup(node.kids[i])])
         \o <<Tok("close", node.tag, "", "", "")>>

RECURSIVE JoinLines(_)
\* '\n'.join(strings)
JoinLines(strs) ==
    IF strs = <<>> THEN <<>>
    ELSE IF Len(strs) = 1 THEN strs[1]
    ELSE strs[1] \o Word("\n") \o JoinLines(Tail(strs))

RECURSIVE ParseSeq(_, _)
\* The parser on the tokens from position i on: the sibling nodes up to the
\* first close tag that closes their parent (or to the end), and the
\* position where it stopped.  Adjacent text becomes one string.
ParseSeq(toks, i) ==
    IF i > Len(toks) THEN [nodes |-> <<>>, next |-> i]
    ELSE LET t == toks[i] IN
         CASE t.k = "close" -> [nodes |-> <<>>, next |-> i]
           [] t.k = "open" ->
                LET inner == ParseSeq(toks, i + 1)
                    rest == ParseSeq(toks, inner.next + 1)
                    el == [tag |-> t.tag, attrs |-> t.attrs, wm |-> t.wm,
                           kids |-> inner.nodes, s |-> <<>>]
                IN  [nodes |-> <<el>> \o rest.nodes, next |-> rest.next]
           [] t.k = "comment" ->
                LET rest == ParseSeq(toks, i + 1)
                IN  [nodes |-> <<CommentNode(t.txt)>> \o rest.nodes,
                     next |-> rest.next]
           [] OTHER ->
                LET rest == ParseSeq(toks, i + 1)
                IN  IF rest.nodes # <<>> /\ rest.nodes[1].tag = "#text"
                    THEN [nodes |-> <<Str(<<t>> \o rest.nodes[1].s)>>
                                    \o Tail(rest.nodes),
                          next |-> rest.next]
                    ELSE [nodes |-> <<Str(<<t>>)>> \o rest.nodes,
                          next |-> rest.next]

\* The nodes a markup string parses to.
Parse(toks) == ParseSeq(toks, 1).nodes

RECURSIVE TagsOf(_)
\* The tag names of the elements of a node sequence, in order.
TagsOf(nodes) ==
    IF nodes = <<>> THEN <<>>
    ELSE IF HasName(Head(nodes)) THEN <<Head(nodes).tag>> \o TagsOf(Tail(nodes))
    ELSE TagsOf(Tail(nodes))

(***************************************************************************)
(* _find_meaningful_nodes                                                  *)
(***************************************************************************)
\* The loop's local variables before the first child.
EmptyRegions ==
    [pre_head |-> <<>>, head |-> None, pre_body |-> <<>>, body |-> None,
     post_body |-> <<>>]

\* Faulty variant of Classify: a head met while a head is already held replaces it.
ClassifyOverwritingHead(st, node) ==
    IF ~Truthy(st.body) /\ HasName(node) /\ node.tag = "head"
    THEN [st EXCEPT !.head = node]
    ELSE IF ~Truthy(st.head) /\ ~Truthy(st.body) THEN
        IF HasName(node) /\ node.tag = "body" THEN [st EXCEPT !.body = node]
        ELSE [st EXCEPT !.pre_head = Append(@, ToMarkup(node))]
    ELSE IF ~Truthy(st.body) THEN
        IF HasName(node) /\ node.tag = "body" THEN [st EXCEPT !.body = node]
        ELSE [st EXCEPT !.pre_body = Append(@, ToMarkup(node))]
    ELSE [st EXCEPT !.post_body = Append(@, ToMarkup(node))]

\* Faulty variant of Classify: after the head, nodes still go to pre_head.
ClassifyNoPreBody(st, node) ==
    IF ~Truthy(st.head) /\ ~Truthy(st.body) THEN
        IF HasName(node) /\ node.tag = "head" THEN [st EXCEPT !.head = node]
        ELSE IF HasName(node) /\ node.tag = "body" THEN [st EXCEPT !.body = node]
        ELSE [st EXCEPT !.pre_head = Append(@, ToMarkup(node))]
    ELSE IF ~Truthy(st.body) THEN
        IF HasName(node) /\ node.tag = "body" THEN [st EXCEPT !.body = node]
        ELSE [st EXCEPT !.pre_head = Append(@, ToMarkup(node))]
    ELSE [st EXCEPT !.post_body = Append(@, ToMarkup(node))]

\* Faulty variant of Classify: the first test looks at the head alone.
ClassifyLateHead(st, node) ==
    IF ~Truthy(st.head) THEN
        IF HasName(node) /\ node.tag = "head" THEN [st EXCEPT !.head = node]
        ELSE IF HasName(node) /\ node.tag = "body" THEN [st EXCEPT !.body = node]
        ELSE [st EXCEPT !.pre_head = Append(@, ToMarkup(node))]
    ELSE IF ~Truthy(st.body) THEN
        IF HasName(node) /\ node.tag = "body" THEN [st EXCEPT !.body = node]
        ELSE [st EXCEPT !.pre_body = Append(@, ToMarkup(node))]
    ELSE [st EXCEPT !.post_body = Append(@, ToMarkup(node))]

\* One iteration of the loop over soup.html.children.
Classify(st, node) ==
    IF ~Truthy(st.head) /\ ~Truthy(st.body) THEN
        IF HasName(node) /\ node.tag = "head" THEN [st EXCEPT !.head = node]
        ELSE IF HasName(node) /\ node.tag = "body" THEN [st EXCEPT !.body = node]
        ELSE [st EXCEPT !.pre_head = Append(@, ToMarkup(node))]
    ELSE IF ~Truthy(st.body) THEN
        IF HasName(node) /\ node.tag = "body" THEN [st EXCEPT !.body = node]
        ELSE [st EXCEPT !.pre_body = Append(@, ToMarkup(node))]
    ELSE [st EXCEPT !.post_body = Append(@, ToMarkup(node))]

\* The returned dict.
RegionSet(st) ==
    [pre_head |-> JoinLines(st.pre_head), head |-> st.head,
     pre_body |-> JoinLines(st.pre_body), body |-> st.body,
     post_body |-> JoinLines(st.post_body)]

RECURSIVE ClassifyAll(_, _)
ClassifyAll(st, nodes) ==
    IF nodes = <<>> THEN st
    ELSE ClassifyAll(Classify(st, Head(nodes)), Tail(nodes))

\* _find_meaningful_nodes(soup), soup.html being `root`.
FindMeaningfulNodes(root) == RegionSet(ClassifyAll(EmptyRegions, root.kids))

(***************************************************************************)
(* Positions in a tree.  A path is the sequence of child indices that      *)
(* leads from the root to a node; <<>> is the root itself.                 *)
(***************************************************************************)
RECURSIVE NodeAt(_, _)
NodeAt(root, path) ==
    IF path = <<>> THEN root ELSE NodeAt(root.kids[Head(path)], Tail(path))

RECURSIVE ReplaceAt(_, _, _)
\* The tree with the node at `path` replaced by `new` (replace_with).
ReplaceAt(root, path, new) ==
    IF path = <<>> THEN new
    ELSE [root EXCEPT !.kids[Head(path)] = ReplaceAt(@, Tail(path), new)]

RECURSIVE PathsWhere(_, _, _)
\* The paths of the descendants of `node` (itself at `path`) that satisfy
\* Matches, in document order.
Matches(node, what) ==
    IF what = "undiffable" THEN HasName(node) /\ node.tag \in {"script", "style"}
    ELSE IF what = "replacement" THEN HasName(node) /\ node.wm # ""
    ELSE HasName(node) /\ node.tag = what

PathsWhere(node, path, what) ==
    LET below(i) == PathsWhere(node.kids[i], Append(path, i), what)
        own(i) == IF Matches(node.kids[i], what) THEN <<Append(path, i)>> ELSE <<>>
    IN  Flatten([i \in 1..Len(node.kids) |-> own(i) \o below(i)])

IsProperPrefix(p, q) == Len(p) < Len(q) /\ SubSeq(q, 1, Len(p)) = p

(***************************************************************************)
(* _remove_undiffable_content and _add_undiffable_content                  *)
(***************************************************************************)
\* Faulty variant of ReplacementId: the prefix is left out of the ID.
ReplacementIdNoPrefix(prefix, index) == "-" \o ToString(index)

\* f'{prefix}-{index}'
ReplacementId(prefix, index) == prefix \o "-" \o ToString(index)

\* f'$[{replacement_id}]$'
ReplacementText(id) == "$[" \o id \o "]$"

\* soup.new_tag(element.name, **{'wm-diff-replacement': replacement_id})
\* with the placeholder text appended.
Replacement(element, id) ==
    [tag |-> element.tag, attrs |-> "", wm |-> id,
     kids |-> <<Str(Word(ReplacementText(id)))>>, s |-> <<>>]

\* The empty dict.
EmptyDict == [id \in {} |-> None]

RECURSIVE RemoveLoop(_, _, _, _, _)
\* The loop over enumerate(soup.find_all(['script', 'style'])), from `index`.
\* The parser keeps the content of script and style as one string, so no
\* found element lies inside another.
RemoveLoop(soup, replacements, found, index, prefix) ==
    IF index >= Len(found) THEN [soup |-> soup, replacements |-> replacements]
    ELSE LET path == found[index + 1]
             element == NodeAt(soup, path)
             replacement_id == ReplacementId(prefix, index)
         IN  RemoveLoop(ReplaceAt(soup, path, Replacement(element, replacement_id)),
                        (replacement_id :> element) @@ replacements,
                        found, index + 1, prefix)

\* _remove_undiffable_content(soup, prefix): the cleaned-up soup and the
\* dict of replacements.
RemoveUndiffableContent(soup, prefix) ==
    RemoveLoop(soup, EmptyDict, PathsWhere(soup, <<>>, "undiffable"), 0, prefix)

RECURSIVE AddLoop(_, _, _, _, _)
\* The loop over soup.select('[wm-diff-replacement]'), from the i-th
\* selected element.  `selected` holds the elements' paths and `ids` their
\* attribute values; `done` are the paths already replaced: an element
\* below one of them left the tree with it.
AddLoop(soup, replacements, selected, i, done) ==
    IF i > Len(selected) THEN [exc |-> "", soup |-> soup]
    ELSE LET path == selected[i].path
             id == selected[i].id
         IN  IF id \notin DOMAIN replacements
             THEN [exc |-> "KeyError", soup |-> soup]
             ELSE IF Truthy(replacements[id])
                     /\ ~\E q \in done : IsProperPrefix(q, path)
             THEN AddLoop(ReplaceAt(soup, path, replacements[id]), replacements,
                          selected, i + 1, done \cup {path})
             ELSE AddLoop(soup, replacements, selected, i + 1, done)

\* _add_undiffable_content(soup, replacements): the exception raised ("" when
\* none) and the soup.
AddUndiffableContent(soup, replacements) ==
    LET paths == PathsWhere(soup, <<>>, "replacement")
        selected == [i \in 1..Len(paths) |->
                       [path |-> paths[i], id |-> NodeAt(soup, paths[i]).wm]]
    IN  AddLoop(soup, replacements, selected, 1, {})


(***************************************************************************)
(* compute_dmp_diff and html_source_diff                                   *)
(***************************************************************************)
\* diff_codes
DiffCode(op) == CASE op = "=" -> 0 [] op = "-" -> -1 [] op = "+" -> 1

RECURSIVE CommonPrefix(_, _)
CommonPrefix(x, y) ==
    IF x = <<>> \/ y = <<>> \/ Head(x) # Head(y) THEN 0
    ELSE 1 + CommonPrefix(Tail(x), Tail(y))

Reverse(x) == [i \in 1..Len(x) |-> x[Len(x) + 1 - i]]

\* The diff engine (diff and diff_bytes of diff_match_patch): an edit script
\* of (op, segment) pairs, op one of "=", "-", "+", whose "=" and "-"
\* segments spell x and whose "=" and "+" segments spell y.
EngineDiff(x, y) ==
    LET p == CommonPrefix(x, y)
        x1 == SubSeq(x, p + 1, Len(x))
        y1 == SubSeq(y, p + 1, Len(y))
        q == CommonPrefix(Reverse(x1), Reverse(y1))
        xm == SubSeq(x1, 1, Len(x1) - q)
        ym == SubSeq(y1, 1, Len(y1) - q)
        suf == SubSeq(x1, Len(x1) - q + 1, Len(x1))
    IN  (IF p > 0 THEN <<[op |-> "=", seg |-> SubSeq(x, 1, p)]>> ELSE <<>>)
        \o (IF xm # <<>> THEN <<[op |-> "-", seg |-> xm]>> ELSE <<>>)
        \o (IF ym # <<>> THEN <<[op |-> "+", seg |-> ym]>> ELSE <<>>)
        \o (IF q > 0 THEN <<[op |-> "=", seg |-> suf]>> ELSE <<>>)

\* What a call leaves behind: the exception raised ("" when none), the
\* returned list, and the engine calls it made.
Outcome(exc, val, made) == [exc |-> exc, val |-> val, calls |-> made]

\* Faulty variant of ComputeDmpDiff: mixed inputs are handed to the text engine.
ComputeDmpDiffCoercing(a, b, timelimit) ==
    LET call(engine) == [engine |-> engine, a |-> a, b |-> b,
                         timelimit |-> timelimit]
        script == EngineDiff(a.val, b.val)
        result == [i \in 1..Len(script) |->
                     [kind |-> DiffCode(script[i].op), seg |-> script[i].seg]]
    IN  IF a.type = "bytes" /\ b.type = "bytes"
        THEN Outcome("", result, <<call("diff_bytes")>>)
        ELSE Outcome("", result, <<call("diff")>>)

\* compute_dmp_diff(a_text, b_text, timelimit)
ComputeDmpDiff(a, b, timelimit) ==
    LET call(engine) == [engine |-> engine, a |-> a, b |-> b,
                         timelimit |-> timelimit]
        script == EngineDiff(a.val, b.val)
        result == [i \in 1..Len(script) |->
                     [kind |-> DiffCode(script[i].op), seg |-> script[i].seg]]
    IN  IF a.type = "str" /\ b.type = "str"
        THEN Outcome("", result, <<call("diff")>>)
        ELSE IF a.type = "bytes" /\ b.type = "bytes"
        THEN Outcome("", result, <<call("diff_bytes")>>)
        ELSE Outcome("TypeError", <<>>, <<>>)

\* TIMELIMIT of html_source_diff, in seconds
TIMELIMIT == 2

\* html_source_diff(a_text, b_text)
HtmlSourceDiffResult(a, b) == ComputeDmpDiff(a, b, TIMELIMIT)

(***************************************************************************)
(* The structural diff engine and _diff_elements                           *)
(***************************************************************************)
RECURSIVE HasWords(_)
\* Whether a node holds any text.
HasWords(node) ==
    IF node.tag = "#text" THEN node.s # <<>>
    ELSE \E i \in 1..Len(node.kids) : HasWords(node.kids[i])

RECURSIVE DiffNodes(_, _)
\* The engine on two node sequences: what both share is kept, an element
\* with the same tag and attributes on both sides is diffed inside, anything
\* else is marked <del> (old) and <ins> (new).  The engine works on words: a
\* deleted element with no text in it is dropped, which is why a placeholder
\* carries text.
DiffNodes(x, y) ==
    LET p == CommonPrefix(x, y)
        x1 == SubSeq(x, p + 1, Len(x))
        y1 == SubSeq(y, p + 1, Len(y))
        q == CommonPrefix(Reverse(x1), Reverse(y1))
        xm == SubSeq(x1, 1, Len(x1) - q)
        ym == SubSeq(y1, 1, Len(y1) - q)
        gone == SelectSeq(xm, HasWords)
        mid == IF Len(xm) = 1 /\ Len(ym) = 1 /\ HasName(xm[1])
                  /\ HasName(ym[1]) /\ xm[1].tag = ym[1].tag
                  /\ xm[1].attrs = ym[1].attrs /\ xm[1].wm = ym[1].wm
               THEN <<[ym[1] EXCEPT !.kids = DiffNodes(xm[1].kids, ym[1].kids)]>>
               ELSE (IF gone # <<>> THEN <<Elem("del", "", gone)>> ELSE <<>>)
                    \o (IF ym # <<>> THEN <<Elem("ins", "", ym)>> ELSE <<>>)
    IN  SubSeq(y, 1, p) \o mid \o SubSeq(y1, Len(y1) - q + 1, Len(y1))

\* htmldiff(old_html, new_html) of lxml.html.diff: markup in, markup out.
HtmlDiff(old_html, new_html) ==
    LET d == DiffNodes(Parse(old_html), Parse(new_html))
    IN  Flatten([i \in 1..Len(d) |-> ToMarkup(d[i])])

\* A call of the engine, as the call log keeps it.
EngineCall(by, old_html, new_html) ==
    [by |-> by, old |-> old_html, new |-> new_html]

\* Faulty variant of DiffElements: no test for an absent element, so clear() is
\* called on None.
DiffElementsUnguarded(old, new) ==
    IF ~Truthy(old) \/ ~Truthy(new)
    THEN Outcome("AttributeError", Str(<<>>), <<>>)
    ELSE Outcome("",
                 [new EXCEPT !.kids = <<Str(HtmlDiff(ToMarkup(old), ToMarkup(new)))>>],
                 <<EngineCall("_diff_elements", ToMarkup(old), ToMarkup(new))>>)

\* _diff_elements(old, new): '' when either is absent, else a copy of `new`
\* whose content is the engine's diff of str(old) and str(new).
DiffElements(old, new) ==
    IF ~Truthy(old) \/ ~Truthy(new)
    THEN Outcome("", Str(<<>>), <<>>)
    ELSE Outcome("",
                 [new EXCEPT !.kids = <<Str(HtmlDiff(ToMarkup(old), ToMarkup(new)))>>],
                 <<EngineCall("_diff_elements", ToMarkup(old), ToMarkup(new))>>)

(***************************************************************************)
(* The steps of html_diff_render                                           *)
(***************************************************************************)
RECURSIVE StripComments(_)
\* [element.extract() for element in soup.find_all(string=... Comment)]
StripComments(node) ==
    LET kept == SelectSeq(node.kids, LAMBDA k : k.tag # "#comment")
    IN  [node EXCEPT !.kids = [i \in 1..Len(kept) |-> StripComments(kept[i])]]

\* htmldiff on two joined text regions, called by html_diff_render itself.
DiffText(old_text, new_text) ==
    Outcome("", Str(HtmlDiff(old_text, new_text)),
            <<EngineCall("html_diff_render", old_text, new_text)>>)

\* The list built from the five calls' outcomes: the results up to the first
\* call that raised, that call's exception, and the engine calls made.
Collected(r) ==
    LET bad == {i \in 1..Len(r) : r[i].exc # ""}
        upto == IF bad = {} THEN Len(r)
                ELSE (CHOOSE i \in bad : \A j \in bad : i <= j) - 1
    IN  Outcome(IF bad = {} THEN "" ELSE r[upto + 1].exc,
                [i \in 1..upto |-> r[i].val],
                Flatten([i \in 1..upto |-> r[i].calls]))

\* diffs = [htmldiff(...), _diff_elements(...), htmldiff(...),
\*          _diff_elements(...), htmldiff(...)]
Diffs(old_c, new_c) ==
    Collected(<< DiffText(old_c.pre_head, new_c.pre_head),
                 DiffElements(old_c.head, new_c.head),
                 DiffText(old_c.pre_body, new_c.pre_body),
                 DiffElements(old_c.body, new_c.body),
                 DiffText(old_c.post_body, new_c.post_body) >>)

\* soup_new.html.clear() and the loop appending the diffs.
Reassembled(soup, results) == [soup EXCEPT !.kids = results]

\* soup.head: the first head element of the document, or None.
SoupHead(soup) ==
    LET found == PathsWhere(soup, <<>>, "head")
    IN  IF found = <<>> THEN None ELSE NodeAt(soup, found[1])

\* Faulty variant of WithHead: no head is created.
WithHeadNotCreated(soup) == soup

\* if not soup_new.head: insert an empty head as first child.
WithHead(soup) ==
    IF ~Truthy(SoupHead(soup))
    THEN [soup EXCEPT !.kids = <<Elem("head", "", <<>>)>> \o @]
    ELSE soup

\* change_styles
ChangeStyles == Elem("style", "type=text/css", <<Str(Word("ins {} del {}"))>>)

\* soup_new.head.append(change_styles)
WithStyle(soup) ==
    LET found == PathsWhere(soup, <<>>, "head")
        h == NodeAt(soup, found[1])
    IN  IF found = <<>> THEN [exc |-> "AttributeError", soup |-> soup]
        ELSE [exc |-> "",
              soup |-> ReplaceAt(soup, found[1],
                                 [h EXCEPT !.kids = Append(@, ChangeStyles)])]

\* soup.prettify(formatter=None): the markup of the document; the
\* indentation it adds is left out.
Prettify(soup) == ToMarkup(soup)

\* Faulty variant of Reparsed: the tree is used as it is.
NotReparsed(soup) == soup

\* BeautifulSoup(soup_new.prettify(formatter=None), 'lxml')
Reparsed(soup) == Parse(Prettify(soup))[1]

\* replacements_new.update(replacements_old)
Updated(into, from) == from @@ into

(***************************************************************************)
(* Each specification runs one operation; the variables of the other       *)
(* operations keep the idle values below.                                  *)
(***************************************************************************)
NoRegions == RegionSet(EmptyRegions)
NoInput == [type |-> "str", val |-> <<>>]
NoOutcome == Outcome("", <<>>, <<>>)

(***************************************************************************)
(* _find_meaningful_nodes, one loop iteration at a time                    *)
(***************************************************************************)
\* The nodes a root may have as children: head, body, another element (with
\* a head inside it), text.
ChildAlphabet ==
    { Elem("head", "", <<>>),
      Elem("body", "", <<Str(Word("t"))>>),
      Elem("div", "", <<Elem("head", "", <<>>)>>),
      Elem("p", "class=a", <<>>),
      Str(Word("t")) }

RootChildren == UNION {[1..n -> ChildAlphabet] : n \in 0..MaxKids}

SplitInit ==
    /\ children \in RootChildren
    /\ idx = 0
    /\ pre_head = <<>> /\ head = None /\ pre_body = <<>> /\ body = None
    /\ post_body = <<>>
    /\ regions = NoRegions
    /\ fpc = "loop"
    /\ a_text = NoInput /\ b_text = NoInput /\ changes = NoOutcome
    /\ dpc = "idle"
    /\ document = None /\ side_prefix = "" /\ shielded = None
    /\ table = EmptyDict /\ sexc = "" /\ spc = "idle"
    /\ soup_old = None /\ soup_new = None
    /\ replacements_old = EmptyDict /\ replacements_new = EmptyDict
    /\ old_content = NoRegions /\ new_content = NoRegions
    /\ diffs = <<>> /\ calls = <<>> /\ rexc = "" /\ render = <<>>
    /\ rpc = "idle"

\* The loop's locals as one record.
Locals ==
    [pre_head |-> pre_head, head |-> head, pre_body |-> pre_body,
     body |-> body, post_body |-> post_body]

\* for node in soup.html.children: one iteration
Iterate ==
    /\ fpc = "loop"
    /\ idx < Len(children)
    /\ LET st == Classify(Locals, children[idx + 1])
       IN  /\ pre_head' = st.pre_head
           /\ head' = st.head
           /\ pre_body' = st.pre_body
           /\ body' = st.body
           /\ post_body' = st.post_body
    /\ idx' = idx + 1
    /\ UNCHANGED <<children, regions, fpc>>
    /\ UNCHANGED <<dmpVars, shieldVars, renderVars>>

\* return {...}
Return ==
    /\ fpc = "loop"
    /\ idx = Len(children)
    /\ regions' = RegionSet(Locals)
    /\ fpc' = "done"
    /\ UNCHANGED <<children, idx, pre_head, head, pre_body, body, post_body>>
    /\ UNCHANGED <<dmpVars, shieldVars, renderVars>>

SplitNext == Iterate \/ Return

SpecSplit ==
    SplitInit /\ [][SplitNext]_vars

(***************************************************************************)
(* html_source_diff                                                        *)
(***************************************************************************)
Symbols == {"x", "y"}

Contents == UNION {[1..n -> Symbols] : n \in 0..MaxLen}

\* A str or a bytes value.
Inputs == [type : {"str", "bytes"}, val : Contents]

DmpInit ==
    /\ a_text \in Inputs
    /\ b_text \in Inputs
    /\ changes = NoOutcome
    /\ dpc = "call"
    /\ children = <<>> /\ idx = 0
    /\ pre_head = <<>> /\ head = None /\ pre_body = <<>> /\ body = None
    /\ post_body = <<>> /\ regions = NoRegions /\ fpc = "idle"
    /\ document = None /\ side_prefix = "" /\ shielded = None
    /\ table = EmptyDict /\ sexc = "" /\ spc = "idle"
    /\ soup_old = None /\ soup_new = None
    /\ replacements_old = EmptyDict /\ replacements_new = EmptyDict
    /\ old_content = NoRegions /\ new_content = NoRegions
    /\ diffs = <<>> /\ calls = <<>> /\ rexc = "" /\ render = <<>>
    /\ rpc = "idle"

\* html_source_diff(a_text, b_text)
HtmlSourceDiff ==
    /\ dpc = "call"
    /\ changes' = HtmlSourceDiffResult(a_text, b_text)
    /\ dpc' = "done"
    /\ UNCHANGED <<a_text, b_text>>
    /\ UNCHANGED <<splitVars, shieldVars, renderVars>>

DmpNext == HtmlSourceDiff

SpecDmp ==
    DmpInit /\ [][DmpNext]_vars

(***************************************************************************)
(* Properties of _find_meaningful_nodes                                    *)
(***************************************************************************)
\* str(x) of a region element, nothing when the region is absent
OptMarkup(node) == IF Truthy(node) THEN ToMarkup(node) ELSE <<>>
OptList(node) == IF Truthy(node) THEN <<ToMarkup(node)>> ELSE <<>>

\* The five regions of the returned dict, re-joined in order.
Rejoined(r) ==
    r.pre_head \o OptMarkup(r.head) \o r.pre_body \o OptMarkup(r.body)
    \o r.post_body

IsTag(node, name) == HasName(node) /\ node.tag = name

\* The position of the first body among the children, Len + 1 when none.
FirstBody ==
    LET bodies == {i \in 1..Len(children) : IsTag(children[i], "body")}
    IN  IF bodies = {} THEN Len(children) + 1
        ELSE CHOOSE i \in bodies : \A j \in bodies : i <= j

MarkupOf(nodes) == [i \in 1..Len(nodes) |-> ToMarkup(nodes[i])]

\* C5: the regions pre_head, head, pre_body, body, post_body, taken in this
\* order, hold every root child exactly once and in the original order, and
\* the re-joined markup parses to the same sequence of child tags as the
\* root had.
C5_RegionsPartitionChildren ==
    fpc = "done" =>
        /\ pre_head \o OptList(head) \o pre_body \o OptList(body) \o post_body
             = MarkupOf(children)
        /\ TagsOf(Parse(Rejoined(regions))) = TagsOf(children)

C5_Witness ==
    /\ fpc = "done"
    /\ Truthy(regions.head) /\ Truthy(regions.body)
    /\ Len(children) >= 4
    /\ pre_body # <<>> /\ post_body # <<>>

\* One iteration as C8 describes it: an iteration that starts with the
\* head found and no body yet puts a child that is not a body into
\* pre_body; with the head found nothing is
\* added to pre_head; with the body found every child, whatever its tag,
\* goes to post_body; and a region is only filled while every later region
\* is still empty.
C8_Iteration ==
    (fpc = "loop" /\ idx' = idx + 1) =>
        LET node == children[idx + 1] IN
        /\ (Truthy(head) /\ ~Truthy(body) /\ ~IsTag(node, "body")) =>
               /\ pre_body' = Append(pre_body, ToMarkup(node))
               /\ UNCHANGED <<pre_head, head, body, post_body>>
        /\ Truthy(head) => pre_head' = pre_head
        /\ Truthy(body) =>
               /\ post_body' = Append(post_body, ToMarkup(node))
               /\ UNCHANGED <<pre_head, head, pre_body, body>>
        /\ pre_head' # pre_head =>
               /\ ~Truthy(head) /\ ~Truthy(body)
               /\ pre_body = <<>> /\ post_body = <<>>
        /\ head' # head => ~Truthy(body) /\ pre_body = <<>> /\ post_body = <<>>
        /\ pre_body' # pre_body => ~Truthy(body) /\ post_body = <<>>
        /\ body' # body => post_body = <<>>

\* C8: every iteration of the loop of _find_meaningful_nodes classifies its
\* child as C8_Iteration states: after the head into pre_body, after the
\* body into post_body, never into a region earlier than a filled one.
C8_RegionsOnlyAdvance == [][C8_Iteration]_vars

C8_Witness ==
    /\ fpc = "done"
    /\ Truthy(head) /\ Truthy(body)
    /\ pre_body # <<>>
    /\ \E i \in 1..Len(post_body) :
          post_body[i] \in {ToMarkup(c) : c \in {k \in ChildAlphabet :
                                                  k.tag \in {"head", "body"}}}

\* C10: when no head comes before the first body, the returned head is
\* absent and pre_body is empty, every child before the first body is in
\* pre_head, and every child after it (a head too) is in post_body.
C10_NoHeadBeforeBody ==
    (fpc = "done" /\ \A i \in 1..(FirstBody - 1) : ~IsTag(children[i], "head")) =>
        /\ ~Truthy(regions.head)
        /\ regions.pre_body = <<>>
        /\ pre_head = MarkupOf(SubSeq(children, 1, FirstBody - 1))
        /\ regions.pre_head = JoinLines(pre_head)
        /\ post_body = MarkupOf(SubSeq(children, FirstBody + 1, Len(children)))
        /\ regions.post_body = JoinLines(post_body)

C10_Witness ==
    /\ fpc = "done"
    /\ \A i \in 1..(FirstBody - 1) : ~IsTag(children[i], "head")
    /\ FirstBody > 1
    /\ \E i \in (FirstBody + 1)..Len(children) : IsTag(children[i], "head")
    /\ ~Truthy(regions.head)

(***************************************************************************)
(* Properties of html_source_diff                                          *)
(***************************************************************************)
\* C7: html_source_diff raises TypeError exactly when one input is str and
\* the other bytes, and then calls no engine; two str go to diff, two bytes
\* to diff_bytes, unchanged and with a time limit of 2; the result lists
\* the engine's segments in its order with kinds -1, 0, 1.
C7_SourceDiffDispatch ==
    dpc = "done" =>
        LET mixed == a_text.type # b_text.type
            script == EngineDiff(a_text.val, b_text.val)
            engine == IF a_text.type = "str" THEN "diff" ELSE "diff_bytes"
        IN  /\ (changes.exc = "TypeError") <=> mixed
            /\ mixed => changes.calls = <<>> /\ changes.val = <<>>
            /\ ~mixed =>
                 /\ changes.exc = ""
                 /\ changes.calls = <<[engine |-> engine, a |-> a_text,
                                       b |-> b_text, timelimit |-> 2]>>
                 /\ Len(changes.val) = Len(script)
                 /\ \A i \in 1..Len(script) :
                       /\ changes.val[i].seg = script[i].seg
                       /\ changes.val[i].kind \in {-1, 0, 1}
                       /\ script[i].op = "=" => changes.val[i].kind = 0
                       /\ script[i].op = "-" => changes.val[i].kind = -1
                       /\ script[i].op = "+" => changes.val[i].kind = 1

C7_Witness ==
    /\ dpc = "done"
    /\ a_text.type = "str" /\ b_text.type = "bytes"
    /\ changes.exc = "TypeError"

(***************************************************************************)
(* Shielding one document and restoring it                                 *)
(***************************************************************************)
\* The script and style elements a document may hold.
Undiffable ==
    { Elem("script", "src=a.js", <<>>),
      Elem("script", "", <<Str(Word("js"))>>),
      Elem("style", "media=print", <<Str(Word("css"))>>) }

\* What a slot holds: nothing, or one undiffable element.
Fills == {<<>>} \cup {<<u>> : u \in Undiffable}

\* The content of the slots i of a filling with i % 3 = r, in order.
SlotsOf(filling, r) ==
    Flatten([i \in 1..Len(filling) |-> IF i % 3 = r THEN filling[i] ELSE <<>>])

\* A document: slots in the head, nested in a div of the body, and in the
\* body itself.
DocumentOf(filling) ==
    Elem("html", "",
         << Elem("head", "", <<Elem("title", "", <<Str(Word("t"))>>)>>
                              \o SlotsOf(filling, 1)),
            Elem("body", "class=b",
                 << Elem("p", "", <<Str(Word("hi"))>>),
                    Elem("div", "id=d", SlotsOf(filling, 2)) >>
                 \o SlotsOf(filling, 0)) >>)

Documents == {DocumentOf(f) : f \in [1..MaxSlots -> Fills]}

Prefixes == {"old", "new", ""}

ShieldInit ==
    /\ document \in Documents
    /\ side_prefix \in Prefixes
    /\ shielded = document
    /\ table = EmptyDict /\ sexc = "" /\ spc = "start"
    /\ children = <<>> /\ idx = 0
    /\ pre_head = <<>> /\ head = None /\ pre_body = <<>> /\ body = None
    /\ post_body = <<>> /\ regions = NoRegions /\ fpc = "idle"
    /\ a_text = NoInput /\ b_text = NoInput /\ changes = NoOutcome
    /\ dpc = "idle"
    /\ soup_old = None /\ soup_new = None
    /\ replacements_old = EmptyDict /\ replacements_new = EmptyDict
    /\ old_content = NoRegions /\ new_content = NoRegions
    /\ diffs = <<>> /\ calls = <<>> /\ rexc = "" /\ render = <<>>
    /\ rpc = "idle"

\* soup, replacements = _remove_undiffable_content(soup, prefix)
Shield ==
    /\ spc = "start"
    /\ LET r == RemoveUndiffableContent(shielded, side_prefix)
       IN  /\ shielded' = r.soup
           /\ table' = r.replacements
    /\ spc' = "shielded"
    /\ UNCHANGED <<document, side_prefix, sexc>>
    /\ UNCHANGED <<splitVars, dmpVars, renderVars>>

\* soup = _add_undiffable_content(soup, replacements)
Restore ==
    /\ spc = "shielded"
    /\ LET r == AddUndiffableContent(shielded, table)
       IN  /\ shielded' = r.soup
           /\ sexc' = r.exc
           /\ spc' = IF r.exc = "" THEN "done" ELSE "raised"
    /\ UNCHANGED <<document, side_prefix, table>>
    /\ UNCHANGED <<splitVars, dmpVars, renderVars>>

ShieldNext == Shield \/ Restore

SpecShield == ShieldInit /\ [][ShieldNext]_vars

\* _add_undiffable_content on a shielded soup and a dict that may lack some
\* of the soup's placeholder IDs.
AddInit ==
    /\ document \in Documents
    /\ side_prefix \in Prefixes
    /\ shielded = RemoveUndiffableContent(document, side_prefix).soup
    /\ \E ids \in SUBSET DOMAIN RemoveUndiffableContent(document, side_prefix).replacements :
          table = [id \in ids |->
                     RemoveUndiffableContent(document, side_prefix).replacements[id]]
    /\ sexc = "" /\ spc = "shielded"
    /\ children = <<>> /\ idx = 0
    /\ pre_head = <<>> /\ head = None /\ pre_body = <<>> /\ body = None
    /\ post_body = <<>> /\ regions = NoRegions /\ fpc = "idle"
    /\ a_text = NoInput /\ b_text = NoInput /\ changes = NoOutcome
    /\ dpc = "idle"
    /\ soup_old = None /\ soup_new = None
    /\ replacements_old = EmptyDict /\ replacements_new = EmptyDict
    /\ old_content = NoRegions /\ new_content = NoRegions
    /\ diffs = <<>> /\ calls = <<>> /\ rexc = "" /\ render = <<>>
    /\ rpc = "idle"

AddNext == Restore

SpecAdd == AddInit /\ [][AddNext]_vars

(***************************************************************************)
(* Properties of the shield                                                *)
(***************************************************************************)
\* The places of the script and style elements of the document.
Found == PathsWhere(document, <<>>, "undiffable")

\* C2: restoring a shielded document with the table the shield returned
\* gives back the original document (every shielded element at its place,
\* with its tag, attributes and content) and leaves no placeholder.
C2_ShieldRoundTrip ==
    /\ spc # "raised"
    /\ spc = "done" =>
          /\ sexc = ""
          /\ shielded = document
          /\ PathsWhere(shielded, <<>>, "replacement") = <<>>

C2_Witness ==
    /\ spc = "done"
    /\ Len(Found) >= 2
    /\ \E i, j \in 1..Len(Found) : Len(Found[i]) # Len(Found[j])
    /\ \E i \in 1..Len(Found) : NodeAt(shielded, Found[i]).kids = <<>>

\* C3: when the soup holds a placeholder whose ID is not a key of the
\* table, _add_undiffable_content does not raise, leaves that placeholder
\* as it is and restores every placeholder whose ID is a key.
C3_MissingIdLeftInPlace ==
    spc \in {"done", "raised"} =>
        LET before == RemoveUndiffableContent(document, side_prefix).soup IN
        /\ sexc = ""
        /\ spc = "done"
        /\ \A i \in 1..Len(Found) :
              NodeAt(shielded, Found[i]) =
                 IF NodeAt(before, Found[i]).wm \in DOMAIN table
                 THEN NodeAt(document, Found[i])
                 ELSE NodeAt(before, Found[i])

(***************************************************************************)
(* html_diff_render, one statement at a time                               *)
(***************************************************************************)
\* The i-th script or style element of a rendered document's head or body.
Embedded(i) ==
    CASE i % 3 = 1 -> Elem("script", "src=a.js", <<>>)
      [] i % 3 = 2 -> Elem("style", "", <<Str(Word("css"))>>)
      [] OTHER -> Elem("script", "", <<Str(Word("js"))>>)

\* The head of a parsed input: absent (n < 0) or with n scripts.
HeadOf(n) ==
    IF n < 0 THEN <<>>
    ELSE <<Elem("head", "", [i \in 1..n |-> Embedded(i)])>>

\* The body of a parsed input: absent (m < 0) or with m scripts after its
\* text; the second variant has other text, a comment and a string before
\* the body.
BodyOf(v, m) ==
    IF m < 0 THEN <<>>
    ELSE IF v = 1
    THEN <<Elem("body", "", <<Elem("p", "", <<Str(Word("hi"))>>)>>
                             \o [i \in 1..m |-> Embedded(i + 1)])>>
    ELSE << Str(Word(" ")),
            Elem("body", "class=b",
                 <<CommentNode("note"), Elem("p", "", <<Str(Word("bye"))>>)>>
                 \o [i \in 1..m |-> Embedded(i + 1)]) >>

\* BeautifulSoup(text, 'lxml') of the inputs: an html root with or without
\* a head and a body.
RenderDocuments ==
    { Elem("html", "", HeadOf(n) \o BodyOf(v, m)) :
        n \in -1..MaxScripts, v \in 1..2, m \in -1..MaxScripts }

RenderInit ==
    /\ soup_old \in RenderDocuments
    /\ soup_new \in RenderDocuments
    /\ replacements_old = EmptyDict /\ replacements_new = EmptyDict
    /\ old_content = NoRegions /\ new_content = NoRegions
    /\ diffs = <<>> /\ calls = <<>> /\ rexc = "" /\ render = <<>>
    /\ rpc = "strip_comments"
    /\ children = <<>> /\ idx = 0
    /\ pre_head = <<>> /\ head = None /\ pre_body = <<>> /\ body = None
    /\ post_body = <<>> /\ regions = NoRegions /\ fpc = "idle"
    /\ a_text = NoInput /\ b_text = NoInput /\ changes = NoOutcome
    /\ dpc = "idle"
    /\ document = None /\ side_prefix = "" /\ shielded = None
    /\ table = EmptyDict /\ sexc = "" /\ spc = "idle"

\* lines 134-137: remove the comment nodes of both documents
StripStep ==
    /\ rpc = "strip_comments"
    /\ soup_old' = StripComments(soup_old)
    /\ soup_new' = StripComments(soup_new)
    /\ rpc' = "shield_old"
    /\ UNCHANGED <<replacements_old, replacements_new, old_content,
                   new_content, diffs, calls, rexc, render>>
    /\ UNCHANGED <<splitVars, dmpVars, shieldVars>>

\* soup_old, replacements_old = _remove_undiffable_content(soup_old, 'old')
ShieldOld ==
    /\ rpc = "shield_old"
    /\ LET r == RemoveUndiffableContent(soup_old, "old")
       IN  soup_old' = r.soup /\ replacements_old' = r.replacements
    /\ rpc' = "shield_new"
    /\ UNCHANGED <<soup_new, replacements_new, old_content, new_content,
                   diffs, calls, rexc, render>>
    /\ UNCHANGED <<splitVars, dmpVars, shieldVars>>

\* soup_new, replacements_new = _remove_undiffable_content(soup_new, 'new')
ShieldNew ==
    /\ rpc = "shield_new"
    /\ LET r == RemoveUndiffableContent(soup_new, "new")
       IN  soup_new' = r.soup /\ replacements_new' = r.replacements
    /\ rpc' = "find_old"
    /\ UNCHANGED <<soup_old, replacements_old, old_content, new_content,
                   diffs, calls, rexc, render>>
    /\ UNCHANGED <<splitVars, dmpVars, shieldVars>>

\* old_content = _find_meaningful_nodes(soup_old)
FindOld ==
    /\ rpc = "find_old"
    /\ old_content' = FindMeaningfulNodes(soup_old)
    /\ rpc' = "find_new"
    /\ UNCHANGED <<soup_old, soup_new, replacements_old, replacements_new,
                   new_content, diffs, calls, rexc, render>>
    /\ UNCHANGED <<splitVars, dmpVars, shieldVars>>

\* new_content = _find_meaningful_nodes(soup_new)
FindNew ==
    /\ rpc = "find_new"
    /\ new_content' = FindMeaningfulNodes(soup_new)
    /\ rpc' = "diff"
    /\ UNCHANGED <<soup_old, soup_new, replacements_old, replacements_new,
                   old_content, diffs, calls, rexc, render>>
    /\ UNCHANGED <<splitVars, dmpVars, shieldVars>>

\* The assignment of the list, or the exception leaving the function.
DiffsAssigned(r) ==
    /\ diffs' = r.val
    /\ calls' = r.calls
    /\ rexc' = r.exc
    /\ rpc' = IF r.exc = "" THEN "reassemble" ELSE "raised"

\* diffs = [htmldiff(...), _diff_elements(...), ...]
DiffStep ==
    /\ rpc = "diff"
    /\ DiffsAssigned(Diffs(old_content, new_content))
    /\ UNCHANGED <<soup_old, soup_new, replacements_old, replacements_new,
                   old_content, new_content, render>>
    /\ UNCHANGED <<splitVars, dmpVars, shieldVars>>

\* soup_new.html.clear() and soup_new.html.append(diffs[index]) for each
ReassembleStep ==
    /\ rpc = "reassemble"
    /\ soup_new' = Reassembled(soup_new, diffs)
    /\ rpc' = "ensure_head"
    /\ UNCHANGED <<soup_old, replacements_old, replacements_new, old_content,
                   new_content, diffs, calls, rexc, render>>
    /\ UNCHANGED <<splitVars, dmpVars, shieldVars>>

\* if not soup_new.head: soup_new.html.insert(0, head)
EnsureHeadStep ==
    /\ rpc = "ensure_head"
    /\ soup_new' = WithHead(soup_new)
    /\ rpc' = "style"
    /\ UNCHANGED <<soup_old, replacements_old, replacements_new, old_content,
                   new_content, diffs, calls, rexc, render>>
    /\ UNCHANGED <<splitVars, dmpVars, shieldVars>>

\* soup_new.head.append(change_styles)
StyleStep ==
    /\ rpc = "style"
    /\ LET r == WithStyle(soup_new)
       IN  /\ soup_new' = r.soup
           /\ rexc' = r.exc
           /\ rpc' = IF r.exc = "" THEN "reparse" ELSE "raised"
    /\ UNCHANGED <<soup_old, replacements_old, replacements_new, old_content,
                   new_content, diffs, calls, render>>
    /\ UNCHANGED <<splitVars, dmpVars, shieldVars>>

\* soup_new = BeautifulSoup(soup_new.prettify(formatter=None), 'lxml')
ReparseStep ==
    /\ rpc = "reparse"
    /\ soup_new' = Reparsed(soup_new)
    /\ rpc' = "update"
    /\ UNCHANGED <<soup_old, replacements_old, replacements_new, old_content,
                   new_content, diffs, calls, rexc, render>>
    /\ UNCHANGED <<splitVars, dmpVars, shieldVars>>

\* replacements_new.update(replacements_old)
UpdateStep ==
    /\ rpc = "update"
    /\ replacements_new' = Updated(replacements_new, replacements_old)
    /\ rpc' = "restore"
    /\ UNCHANGED <<soup_old, soup_new, replacements_old, old_content,
                   new_content, diffs, calls, rexc, render>>
    /\ UNCHANGED <<splitVars, dmpVars, shieldVars>>

\* soup_new = _add_undiffable_content(soup_new, replacements_new)
RestoreStep ==
    /\ rpc = "restore"
    /\ LET r == AddUndiffableContent(soup_new, replacements_new)
       IN  /\ soup_new' = r.soup
           /\ rexc' = r.exc
           /\ rpc' = IF r.exc = "" THEN "serialize" ELSE "raised"
    /\ UNCHANGED <<soup_old, replacements_old, replacements_new, old_content,
                   new_content, diffs, calls, render>>
    /\ UNCHANGED <<splitVars, dmpVars, shieldVars>>

\* render = soup_new.prettify(formatter=None); return render
SerializeStep ==
    /\ rpc = "serialize"
    /\ render' = Prettify(soup_new)
    /\ rpc' = "done"
    /\ UNCHANGED <<soup_old, soup_new, replacements_old, replacements_new,
                   old_content, new_content, diffs, calls, rexc>>
    /\ UNCHANGED <<splitVars, dmpVars, shieldVars>>

RenderNext ==
    \/ StripStep \/ ShieldOld \/ ShieldNew \/ FindOld \/ FindNew \/ DiffStep
    \/ ReassembleStep \/ EnsureHeadStep \/ StyleStep \/ ReparseStep
    \/ UpdateStep \/ RestoreStep \/ SerializeStep

SpecRender == RenderInit /\ [][RenderNext]_vars

(***************************************************************************)
(* Properties of html_diff_render                                          *)
(***************************************************************************)
HeadPaths(soup) == PathsWhere(soup, <<>>, "head")

\* C1: after the root is cleared, the five diffs are appended and the head
\* is ensured, the document has exactly one head element, and the style
\* element is then appended as a child of that head, whether or not the
\* inputs had a head or a body.
C1_OneHeadWithStyle ==
    /\ rpc \in {"style", "reparse"} => Len(HeadPaths(soup_new)) = 1
    /\ rpc = "reparse" =>
          LET h == NodeAt(soup_new, HeadPaths(soup_new)[1])
          IN  /\ h.kids # <<>>
              /\ h.kids[Len(h.kids)] = ChangeStyles
              /\ Len(PathsWhere(soup_new, <<>>, "style")) = 1

C1_Witness ==
    /\ rpc = "reparse"
    /\ ~Truthy(old_content.head) /\ ~Truthy(new_content.head)
    /\ ~Truthy(new_content.body)
    /\ NodeAt(soup_new, HeadPaths(soup_new)[1]).kids = <<ChangeStyles>>

\* The statements after diffs = [...]
AfterDiff ==
    {"reassemble", "ensure_head", "style", "reparse", "update", "restore",
     "serialize", "done"}

\* What _diff_elements is to return for a pair of regions, and the engine
\* calls it is to make.
ExpectedPair(old, new, got) ==
    IF old = None \/ new = None
    THEN got = Str(<<>>)
    ELSE /\ got.tag = new.tag /\ got.attrs = new.attrs /\ got.wm = new.wm
         /\ got.kids = <<Str(HtmlDiff(ToMarkup(old), ToMarkup(new)))>>

ExpectedCalls(old, new) ==
    IF old = None \/ new = None THEN <<>>
    ELSE <<EngineCall("_diff_elements", ToMarkup(old), ToMarkup(new))>>

\* C6: _diff_elements returns '' and calls no engine when either element is
\* absent; with both present it returns the new element's tag and
\* attributes around the engine's diff of the two serialized elements; and
\* html_diff_render never raises, whatever regions are absent: it is always
\* at one of its statements, each of which leads on, and the last returns
\* markup.
C6_AbsentRegionsDegrade ==
    /\ rpc # "raised" /\ rexc = ""
    /\ rpc \in {"strip_comments", "shield_old", "shield_new", "find_old",
                "find_new", "diff"} \cup AfterDiff
    /\ rpc = "done" => render # <<>>
    /\ rpc \in AfterDiff =>
          /\ Len(diffs) = 5
          /\ ExpectedPair(old_content.head, new_content.head, diffs[2])
          /\ ExpectedPair(old_content.body, new_content.body, diffs[4])
          /\ SelectSeq(calls, LAMBDA c : c.by = "_diff_elements")
               = ExpectedCalls(old_content.head, new_content.head)
                 \o ExpectedCalls(old_content.body, new_content.body)

C6_Witness ==
    /\ rpc = "done"
    /\ old_content.head = None /\ new_content.head # None
    /\ old_content.body # None /\ new_content.body # None
    /\ diffs[2] = Str(<<>>)
    /\ diffs[4].tag = "body"

\* The ID the shield is to give the i-th element (from 0) of a side.
ExpectedId(side, i) == side \o "-" \o ToString(i)

\* The shield of one side: IDs by scan position, one entry per script or
\* style element, each entry the element that stood at the place.
ShieldedAsExpected(side, before, after, replacements) ==
    LET found == PathsWhere(before, <<>>, "undiffable")
    IN  /\ DOMAIN replacements = {ExpectedId(side, i) : i \in 0..(Len(found) - 1)}
        /\ Cardinality(DOMAIN replacements) = Len(found)
        /\ \A i \in 0..(Len(found) - 1) :
              /\ replacements[ExpectedId(side, i)] = NodeAt(before, found[i + 1])
              /\ NodeAt(after, found[i + 1]).wm = ExpectedId(side, i)

\* The steps as C9 describes them: the shield gives the i-th script or
\* style element of a document the ID '<prefix>-<i>' and records one entry
\* per element; the 'old' and 'new' tables never share a key; and the
\* merged table has the entries of both,
\* each ID mapping to the element of the document it came from.
C9_Step ==
    /\ (rpc = "shield_old" /\ rpc' = "shield_new") =>
          ShieldedAsExpected("old", soup_old, soup_old', replacements_old')
    /\ (rpc = "shield_new" /\ rpc' = "find_old") =>
          ShieldedAsExpected("new", soup_new, soup_new', replacements_new')
    /\ (rpc = "update" /\ rpc' = "restore") =>
          /\ DOMAIN replacements_old \cap DOMAIN replacements_new = {}
          /\ Cardinality(DOMAIN replacements_new')
               = Cardinality(DOMAIN replacements_old)
                 + Cardinality(DOMAIN replacements_new)
          /\ \A id \in DOMAIN replacements_old :
                replacements_new'[id] = replacements_old[id]
          /\ \A id \in DOMAIN replacements_new :
                replacements_new'[id] = replacements_new[id]

\* C9: every shield step and the update step of html_diff_render behave as
\* C9_Step states: positional IDs '<prefix>-<i>', one entry per element,
\* disjoint 'old' and 'new' keys, a merged table that keeps every entry.
C9_PlaceholderIds == [][C9_Step]_vars

C9_Witness ==
    /\ rpc = "restore"
    /\ Cardinality(DOMAIN replacements_old) >= 2
    /\ Cardinality(DOMAIN replacements_new)
         >= Cardinality(DOMAIN replacements_old) + 2

\* The IDs of both tables.
AllIds == DOMAIN replacements_old \cup DOMAIN replacements_new

\* Whether a markup string shows a placeholder: an element with the
\* wm-diff-replacement attribute or the text '$[<id>]$' of a table's ID.
Leaks(markup) ==
    \E i \in 1..Len(markup) :
        \/ markup[i].k = "open" /\ markup[i].wm # ""
        \/ markup[i].k = "text"
           /\ \E id \in AllIds : markup[i].txt = "$[" \o id \o "]$"

\* The shielded elements the tables hold.
TableValues ==
    {replacements_old[id] : id \in DOMAIN replacements_old}
    \cup {replacements_new[id] : id \in DOMAIN replacements_new}

RECURSIVE CountIn(_, _)
\* How many elements of a document are among `vals`.
CountIn(node, vals) ==
    LET below[i \in 0..Len(node.kids)] ==
            IF i = 0 THEN 0 ELSE below[i - 1] + CountIn(node.kids[i], vals)
    IN  (IF node \in vals THEN 1 ELSE 0) + below[Len(node.kids)]

\* The number of shielded originals in a document.
Originals(soup) == CountIn(soup, TableValues)

\* C4 (states): no table exists before its shield step; from the region
\* split up to the restore step the document holds no shielded original;
\* the restore step works on the reparsed tree, in which every placeholder
\* of the markup is an element; after it neither the document nor the
\* returned markup shows a placeholder attribute or text.
C4_State ==
    /\ rpc \in {"strip_comments", "shield_old"} => replacements_old = EmptyDict
    /\ rpc \in {"strip_comments", "shield_old", "shield_new"} =>
          replacements_new = EmptyDict
    /\ rpc \in {"find_old", "find_new", "diff", "reassemble", "ensure_head",
                "style", "reparse", "update", "restore"} =>
          Originals(soup_new) = 0
    /\ rpc = "restore" => soup_new = Parse(ToMarkup(soup_new))[1]
    /\ rpc \in {"serialize", "done"} =>
          /\ PathsWhere(soup_new, <<>>, "replacement") = <<>>
          /\ ~Leaks(ToMarkup(soup_new))
    /\ rpc = "done" => ~Leaks(render)
    /\ rpc # "raised"

\* C4 (steps): the tables are not changed by the splitting, diffing and
\* reassembly, after the shield steps the restore step is the one step that
\* puts originals into the document, and nothing is restored after it.
C4_Step ==
    /\ rpc \in {"find_old", "find_new", "diff", "reassemble", "ensure_head",
                "style", "reparse", "restore", "serialize"} =>
          UNCHANGED <<replacements_old, replacements_new>>
    /\ (rpc \notin {"strip_comments", "shield_old", "shield_new"}
        /\ Originals(soup_new) = 0 /\ Originals(soup_new)' # 0) =>
          rpc = "restore"
    /\ rpc = "serialize" => soup_new' = soup_new

\* C4: in every run the replacement tables are created by the shield steps
\* before the regions are split and consumed by the one restore step that
\* follows the reparse, after which the output shows no placeholder.
C4_TablesConsumedOnce == []C4_State /\ [][C4_Step]_vars

C4_Witness ==
    /\ rpc = "done"
    /\ DOMAIN replacements_old # {}
    /\ Cardinality(DOMAIN replacements_new) > Cardinality(DOMAIN replacements_old)
    /\ Originals(soup_new) >= 2

====
